---------------------------- MODULE Spec2Model ----------------------------
(***************************************************************************)
(* InstaMailer backend: the draft store and its request handlers           *)
(* (src/main.py), the SMTP dispatcher (src/mailer.py), the content         *)
(* generator (src/email_generator.py) and the statistics report.           *)
(*                                                                         *)
(* Representation.                                                         *)
(*   - A str that the code splits is kept in its split form: a prompt is   *)
(*     the sequence of its whitespace-separated words, a content is the    *)
(*     sequence of its lines ("" is <<>>); a line is a TLA+ string, so     *)
(*     len() and slicing are computed on the characters.                   *)
(*   - An Optional value is <<>> (None) or <<x>>.                          *)
(*   - A datetime is [t, aware]: t counts ticks (TicksPerDay to a day)     *)
(*     since the start of proleptic day 0, aware says whether tzinfo is    *)
(*     set.  All clocks are UTC.                                           *)
(*   - A JSON response is a record of fixed shape (see Response).          *)
(***************************************************************************)
EXTENDS Integers, Sequences, FiniteSets, TLC

VARIABLES
    drafts,           \* the Draft table: id -> row
    now,              \* the UTC clock, in ticks
    smtp_configured,  \* Settings.smtp_configured (cached for the process)
    resp,             \* the response to the last request handled (Spec, SpecStats)
    served,           \* Spec: the number of requests handled so far
    sess              \* SpecConc: request -> its Session and handler position

vars == <<drafts, now, smtp_configured, resp, served, sess>>

-----------------------------------------------------------------------------
(* Bounds *)

\* ticks to a day: the resolution of the clock
TicksPerDay == 2
\* Spec: the number of requests handled in a run
MaxRequests == 4
\* how far the clock of Spec and SpecConc advances, in ticks
MaxTicks == 1
\* SpecStats: days from the first evaluation day to the last
StatsDays == 100
\* SpecStats: the oldest creation instant drawn, in ticks before the evaluation
MaxAge == 80
\* SpecStats: number of rows in the table the report is computed from
MaxStatsRows == 1
\* SpecConc: number of concurrent requests
NumProcs == 2

-----------------------------------------------------------------------------
(* Optional values *)

None == <<>>
Some(x) == <<x>>

Max(S) == CHOOSE x \in S : \A y \in S : y <= x

-----------------------------------------------------------------------------
(* datetime arithmetic, as Python's datetime/timedelta compute it *)

IsLeap(y) == (y % 4 = 0) /\ ((y % 100 # 0) \/ (y % 400 = 0))

DaysInMonthTable == <<31, 28, 31, 30, 31, 30, 31, 31, 30, 31, 30, 31>>

DaysBeforeMonthTable == <<0, 31, 59, 90, 120, 151, 181, 212, 243, 273, 304, 334>>

DaysBeforeYear(y) ==
    (y - 1) * 365 + ((y - 1) \div 4) - ((y - 1) \div 100) + ((y - 1) \div 400)

DaysBeforeMonth(y, m) == DaysBeforeMonthTable[m] + (IF m > 2 /\ IsLeap(y) THEN 1 ELSE 0)

\* date(y, m, d).toordinal()
Ordinal(y, m, d) == DaysBeforeYear(y) + DaysBeforeMonth(y, m) + d

\* date.fromordinal(n): the 400/100/4/1-year cycles, then the month estimate
FromOrdinal(n) ==
    LET n0   == n - 1
        n400 == n0 \div 146097
        r400 == n0 % 146097
        n100 == r400 \div 36524
        r100 == r400 % 36524
        n4   == r100 \div 1461
        r4   == r100 % 1461
        n1   == r4 \div 365
        r1   == r4 % 365
        year == n400 * 400 + 1 + n100 * 100 + n4 * 4 + n1
        leap == n1 = 3 /\ (n4 # 24 \/ n100 = 3)
        est  == (r1 + 50) \div 32
        pre  == DaysBeforeMonthTable[est] + (IF est > 2 /\ leap THEN 1 ELSE 0)
        month == IF pre > r1 THEN est - 1 ELSE est
        preceding ==
            IF pre > r1
            THEN pre - (DaysInMonthTable[est - 1] + (IF est - 1 = 2 /\ leap THEN 1 ELSE 0))
            ELSE pre
    IN  IF n1 = 4 \/ n100 = 4
        THEN [year |-> year - 1, month |-> 12, day |-> 31]
        ELSE [year |-> year, month |-> month, day |-> r1 - preceding + 1]

YearOf(n)  == FromOrdinal(n).year
MonthOf(n) == FromOrdinal(n).month
DayOf(n)   == FromOrdinal(n).day

\* the day (ordinal) of an instant
DateOf(t) == t \div TicksPerDay

\* datetime(y, m, d) at time-of-day tod, in ticks
Instant(y, m, d, tod) == Ordinal(y, m, d) * TicksPerDay + tod

\* timedelta(days=k), in ticks
timedelta(k) == k * TicksPerDay

\* dt.replace(day=1): same year, month and time of day
ReplaceDay1(t) == t - timedelta(DayOf(DateOf(t)) - 1)

\* a year-and-month as one number, so that consecutive calendar months differ by 1
MonthIndex(t) == YearOf(DateOf(t)) * 12 + (MonthOf(DateOf(t)) - 1)

MonthAbbr ==
    <<"Jan", "Feb", "Mar", "Apr", "May", "Jun",
      "Jul", "Aug", "Sep", "Oct", "Nov", "Dec">>

\* dt.strftime("%b")
strftime_b(t) == MonthAbbr[MonthOf(DateOf(t))]

\* datetime.now(timezone.utc)
utcnow == [t |-> now, aware |-> TRUE]

-----------------------------------------------------------------------------
(* main.ensure_aware and the comparison of datetimes *)

\* dt is an Optional datetime
ensure_aware(dt) ==
    IF dt = None THEN dt
    ELSE IF ~dt[1].aware THEN Some([dt[1] EXCEPT !.aware = TRUE])
    ELSE dt

\* a <= b on datetimes raises TypeError for None and for naive against aware
Comparable(a, b) == a # None /\ b # None /\ a[1].aware = b[1].aware
DtLe(a, b) == a[1].t <= b[1].t

-----------------------------------------------------------------------------
(* Request inputs *)

LongLine ==
    "Following up on the quarterly licensing renewal that we discussed at length last week"

Prompts == { <<"please", "renew", "the", "site", "license", "before", "friday", "noon">> }
Recipients == {"a@example.com"}
Tones == {"friendly", "Formal"}
Types == {"general"}

GenerateRequests == [prompt : Prompts, recipient : Recipients, tone : Tones, type : Types]

\* what the generation backend answers: None (not configured, transport or
\* status error, no candidates) or the stripped text of the first candidate
ApiOutcomes == { None, Some(<<LongLine, "Thanks.">>) }

\* bodies posted to /update_draft
UpdateContents == { <<>>, <<"Edited body">> }

-----------------------------------------------------------------------------
(* email_generator.EmailGenerator *)

lower(s) == IF s = "Formal" THEN "formal" ELSE s

RECURSIVE Join(_)
\* " ".join(words)
Join(words) ==
    IF words = <<>> THEN ""
    ELSE IF Len(words) = 1 THEN words[1]
    ELSE words[1] \o " " \o Join(Tail(words))

\* words[:n]
Take(s, n) == SubSeq(s, 1, IF Len(s) < n THEN Len(s) ELSE n)

\* api is the backend's answer. {"content": ..., "subject": ...}
generate_email_with_subject(prompt, tone, api) ==
    LET informal == lower(tone) \in {"friendly", "casual"}
        greeting == IF informal THEN "Hi there," ELSE "Dear Sir/Madam,"
        closing  == IF informal THEN <<"Best,", "[Your Name]">>
                                ELSE <<"Best regards,", "[Your Name]">>
        content  == IF api = None \/ api[1] = <<>>
                    THEN <<greeting, "", Join(prompt), "">> \o closing
                    ELSE api[1]
        first_line == content[1]
        subject  == IF Len(first_line) < 80 THEN first_line ELSE Join(Take(prompt, 7))
    IN  [content |-> content, subject |-> subject]

-----------------------------------------------------------------------------
(* mailer.send_email *)

\* variant: the configuration check is skipped
send_email_unchecked(to_email, subject, content, transport_ok) == transport_ok

\* transport_ok: connect, TLS, login and send_message all went through
send_email(to_email, subject, content, transport_ok) ==
    IF ~smtp_configured THEN FALSE
    ELSE transport_ok

-----------------------------------------------------------------------------
(* The Draft table *)

\* the row Draft(...) inserts: status, created_at and sent_at take the
\* model's defaults, the id is the store's
NewDraft(id, prompt, content, recipient, tone, type, subject) ==
    [ id         |-> id,
      prompt     |-> prompt,
      content    |-> content,
      subject    |-> subject,
      recipient  |-> recipient,
      tone       |-> tone,
      type       |-> type,
      status     |-> "draft",
      created_at |-> Some([t |-> now, aware |-> FALSE]),
      sent_at    |-> None ]

\* INTEGER PRIMARY KEY: one more than the largest id in the table
NextId(table) == IF DOMAIN table = {} THEN 1 ELSE Max(DOMAIN table) + 1

EmptyStore == [i \in {} |-> 0]

Rows(table) == { table[i] : i \in DOMAIN table }

\* variant: DELETE ... WHERE id >= ?
Without_from(table, id) == [i \in {j \in DOMAIN table : j < id} |-> table[i]]

Without(table, id) == [i \in DOMAIN table \ {id} |-> table[i]]

With(table, row) == [i \in DOMAIN table \cup {row.id} |-> IF i = row.id THEN row ELSE table[i]]

-----------------------------------------------------------------------------
(* Responses and exceptions *)

Response(op, id, code, status, message, draft, emails, stats) ==
    [ op |-> op, id |-> id, code |-> code, status |-> status, message |-> message,
      draft |-> draft, emails |-> emails, stats |-> stats ]

NoResponse == Response("none", 0, 0, "", "", None, <<>>, None)

HTTPException(status_code, detail) ==
    [class |-> "HTTPException", status_code |-> status_code, detail |-> detail]

\* the error response FastAPI sends for a raised HTTPException
ErrorResponse(op, id, exc) ==
    Response(op, id, exc.status_code, "", exc.detail, None, <<>>, None)

\* send:  except HTTPException: raise / except Exception: 500
send_except(exc) ==
    IF exc.class = "HTTPException" THEN exc
    ELSE HTTPException(500, "Internal server error")

\* delete_email:  except Exception (HTTPException is an Exception)
delete_email_except(exc) == HTTPException(500, "Error deleting email")

\* update_draft:  except Exception
update_draft_except(exc) == HTTPException(500, "Error updating draft")


-----------------------------------------------------------------------------
(* GET /stats: the report computed from the rows read and the clock *)

Count(S) == Cardinality(S)

\* round(num / den, 0) to an integer, ties to even (Python's round)
RoundHalfEven(num, den) ==
    LET q == num \div den
        r == num % den
    IN  IF 2 * r < den THEN q
        ELSE IF 2 * r > den THEN q + 1
        ELSE IF q % 2 = 0 THEN q ELSE q + 1

RECURSIVE SortedIds(_)
\* the ids of a set, ascending: the order select(Draft) yields the rows in
SortedIds(S) ==
    IF S = {} THEN <<>>
    ELSE LET m == CHOOSE x \in S : \A y \in S : x <= y
         IN  <<m>> \o SortedIds(S \ {m})

RECURSIVE FirstSeen(_, _)
\* the distinct tones of the rows, in the order first met (Counter's key order)
FirstSeen(table, ids) ==
    IF ids = <<>> THEN <<>>
    ELSE LET rest == FirstSeen(table, SubSeq(ids, 1, Len(ids) - 1))
             tone == table[ids[Len(ids)]].tone
         IN  IF \E k \in 1..Len(rest) : rest[k] = tone THEN rest ELSE Append(rest, tone)

RECURSIVE MostCommon(_, _)
\* Counter.most_common(): by count descending, ties in key order
MostCommon(table, keys) ==
    IF keys = <<>> THEN <<>>
    ELSE LET n(tone) == Count({i \in DOMAIN table : table[i].tone = tone})
             k == CHOOSE k \in 1..Len(keys) :
                     /\ \A j \in 1..Len(keys) : n(keys[j]) <= n(keys[k])
                     /\ \A j \in 1..(k - 1) : n(keys[j]) < n(keys[k])
         IN  <<[tone |-> keys[k], count |-> n(keys[k])]>>
             \o MostCommon(table, SubSeq(keys, 1, k - 1) \o SubSeq(keys, k + 1, Len(keys)))

\* month_start of the loop's round i, evaluated at instant at
month_start(at, i) == ReplaceDay1(at) - timedelta(30 * i)

\* month_end of the loop's round i
month_end(at, i) ==
    ReplaceDay1(ReplaceDay1(month_start(at, i)) + timedelta(32)) - timedelta(1)

\* the rows of a round: month_start <= ensure_aware(d.created_at) <= month_end
month_drafts(table, start, end) ==
    { d \in Rows(table) :
        /\ DtLe(Some([t |-> start, aware |-> TRUE]), ensure_aware(d.created_at))
        /\ DtLe(ensure_aware(d.created_at), Some([t |-> end, aware |-> TRUE])) }

\* the entry appended in round i
monthly_entry(table, at, i) ==
    LET start == month_start(at, i)
        end   == month_end(at, i)
        rows  == month_drafts(table, start, end)
    IN  [ month  |-> strftime_b(start),
          sent   |-> Count({d \in rows : d.status = "sent"}),
          drafts |-> Count({d \in rows : d.status = "draft"}) ]

\* range(6), appended in turn and then reversed
monthly_stats(table, at) == [k \in 1..6 |-> monthly_entry(table, at, 6 - k)]

total_sent(table)   == Count({i \in DOMAIN table : table[i].status = "sent"})
total_drafts(table) == Count({i \in DOMAIN table : table[i].status = "draft"})
total_failed(table) == Count({i \in DOMAIN table : table[i].status = "failed"})
total_emails(table) == Count(DOMAIN table)

\* success_rate is kept in tenths of a percent: round(x, 1) * 10
success_rate(table) ==
    IF total_emails(table) # 0
    THEN RoundHalfEven(total_sent(table) * 1000, total_emails(table))
    ELSE 0

recent_activity(table, at) ==
    LET week_ago == Some([t |-> at - timedelta(7), aware |-> TRUE])
    IN  Count({d \in Rows(table) : DtLe(week_ago, ensure_aware(d.created_at))})

\* the comparisons of the handler raise TypeError unless every created_at,
\* once through ensure_aware, is an aware datetime
StatsTypeError(table) ==
    \E d \in Rows(table) : ~Comparable(ensure_aware(d.created_at), Some(utcnow))

StatsReport(table, at) ==
    [ total_sent      |-> total_sent(table),
      total_drafts    |-> total_drafts(table),
      total_failed    |-> total_failed(table),
      success_rate    |-> success_rate(table),
      recent_activity |-> recent_activity(table, at),
      popular_tones   |-> MostCommon(table, FirstSeen(table, SortedIds(DOMAIN table))),
      monthly_stats   |-> monthly_stats(table, at) ]

-----------------------------------------------------------------------------
(* The rows the handlers write *)

\* send, success: draft.status = "sent"; draft.sent_at = now
SentRow(draft) == [draft EXCEPT !.status = "sent", !.sent_at = Some(utcnow)]

\* variant: a status outside the three the report counts
FailedRow_error(draft) == [draft EXCEPT !.status = "error"]

\* send, failure: draft.status = "failed"
FailedRow(draft) == [draft EXCEPT !.status = "failed"]

\* variant: an edit puts the draft back to "draft"
UpdatedRow_reset(draft, content) ==
    [draft EXCEPT !.content = content, !.status = "draft", !.sent_at = None]

\* update_draft: draft.content = content
UpdatedRow(draft, content) == [draft EXCEPT !.content = content]

\* the subject send passes to the dispatcher
send_subject(draft) ==
    IF draft.content # <<>>
    THEN (IF draft.subject # "" THEN draft.subject ELSE Take(draft.content[1], 50))
    ELSE "Email"

RECURSIVE Descending(_)
\* the orders of a set of rows with created_at descending; rows of equal
\* created_at come in either order
Descending(rows) ==
    IF rows = {} THEN {<<>>}
    ELSE UNION { { <<r>> \o rest : rest \in Descending(rows \ {r}) } :
                 r \in {r \in rows : \A q \in rows : DtLe(q.created_at, r.created_at)} }

\* the rows as select(Draft).order_by(Draft.created_at.desc()) may return them
NewestFirst(table) == Descending(Rows(table))

-----------------------------------------------------------------------------
(* The request handlers, each run from request to response *)

StartInstant == Instant(2024, 3, 1, 0)

\* GET /
root ==
    /\ resp' = Response("root", 0, 200, "", "InstaMailer Backend is running.", None, <<>>, None)
    /\ UNCHANGED <<drafts, now, smtp_configured, sess>>

\* GET /health
health_check ==
    /\ resp' = Response("health_check", 0, 200, "healthy", "", None, <<>>, None)
    /\ UNCHANGED <<drafts, now, smtp_configured, sess>>

\* POST /generate
generate(request, api) ==
    LET email_data == generate_email_with_subject(request.prompt, request.tone, api)
        draft == NewDraft(NextId(drafts), request.prompt, email_data.content,
                          request.recipient, request.tone, request.type,
                          email_data.subject)
    IN  /\ drafts' = With(drafts, draft)
        /\ resp' = Response("generate", draft.id, 200, "", "", Some(draft), <<>>, None)
        /\ UNCHANGED <<now, smtp_configured, sess>>

\* POST /send/{draft_id}
send(draft_id, transport_ok) ==
    /\ IF draft_id \notin DOMAIN drafts
       THEN /\ resp' = ErrorResponse("send", draft_id,
                                     send_except(HTTPException(404, "Draft not found")))
            /\ UNCHANGED drafts
       ELSE LET draft == drafts[draft_id]
                success == send_email(draft.recipient, send_subject(draft),
                                      draft.content, transport_ok)
            IN  IF success
                THEN /\ drafts' = With(drafts, SentRow(draft))
                     /\ resp' = Response("send", draft_id, 200, "sent",
                                         "Email sent successfully", None, <<>>, None)
                ELSE /\ drafts' = With(drafts, FailedRow(draft))
                     /\ resp' = ErrorResponse("send", draft_id,
                                    send_except(HTTPException(500, "Failed to send email")))
    /\ UNCHANGED <<now, smtp_configured, sess>>

\* GET /emails
get_emails ==
    /\ \E rows \in NewestFirst(drafts) :
          resp' = Response("get_emails", 0, 200, "", "", None, rows, None)
    /\ UNCHANGED <<drafts, now, smtp_configured, sess>>

\* GET /stats
get_stats ==
    /\ IF StatsTypeError(drafts)
       THEN resp' = ErrorResponse("get_stats", 0, HTTPException(500, "Error calculating stats"))
       ELSE resp' = Response("get_stats", 0, 200, "", "", None, <<>>,
                             Some(StatsReport(drafts, now)))
    /\ UNCHANGED <<drafts, now, smtp_configured, sess>>

\* DELETE /emails/{draft_id}
delete_email(draft_id) ==
    /\ IF draft_id \notin DOMAIN drafts
       THEN /\ resp' = ErrorResponse("delete_email", draft_id,
                                     delete_email_except(HTTPException(404, "Draft not found")))
            /\ UNCHANGED drafts
       ELSE /\ drafts' = Without(drafts, draft_id)
            /\ resp' = Response("delete_email", draft_id, 200, "",
                                "Email deleted successfully", None, <<>>, None)
    /\ UNCHANGED <<now, smtp_configured, sess>>

\* POST /update_draft/{draft_id}
update_draft(draft_id, content) ==
    /\ IF draft_id \notin DOMAIN drafts
       THEN /\ resp' = ErrorResponse("update_draft", draft_id,
                                     update_draft_except(HTTPException(404, "Draft not found")))
            /\ UNCHANGED drafts
       ELSE /\ drafts' = With(drafts, UpdatedRow(drafts[draft_id], content))
            /\ resp' = Response("update_draft", draft_id, 200, "", "Draft updated",
                                None, <<>>, None)
    /\ UNCHANGED <<now, smtp_configured, sess>>

\* the clock advances between requests
Tick ==
    /\ now < StartInstant + MaxTicks
    /\ now' = now + 1
    /\ UNCHANGED <<drafts, smtp_configured, resp, served, sess>>

-----------------------------------------------------------------------------
(* Spec: requests handled one after another, from an empty table *)

\* ids a request may name: every id up to the next one the store would hand out
RequestIds == 1..NextId(drafts)

Init ==
    /\ drafts = EmptyStore
    /\ now = StartInstant
    /\ smtp_configured \in BOOLEAN
    /\ resp = NoResponse
    /\ served = 0
    /\ sess = <<>>

\* one more request is taken up
Serve ==
    /\ served < MaxRequests
    /\ served' = served + 1

Next ==
    \/ Serve /\ root
    \/ Serve /\ health_check
    \/ Serve /\ \E request \in GenerateRequests, api \in ApiOutcomes : generate(request, api)
    \/ Serve /\ \E draft_id \in RequestIds, transport_ok \in BOOLEAN :
                    send(draft_id, transport_ok)
    \/ Serve /\ get_emails
    \/ Serve /\ get_stats
    \/ Serve /\ \E draft_id \in RequestIds : delete_email(draft_id)
    \/ Serve /\ \E draft_id \in RequestIds, content \in UpdateContents :
                    update_draft(draft_id, content)
    \/ Tick

Spec == Init /\ [][Next]_vars


-----------------------------------------------------------------------------
(* Properties of the draft lifecycle, under Spec *)

DraftFields ==
    {"id", "prompt", "content", "subject", "recipient", "tone", "type",
     "status", "created_at", "sent_at"}

\* what the Dispatcher reports for a send whose transport outcome is transport_ok
DispatcherSuccess(transport_ok) == smtp_configured /\ transport_ok

\* a step is the send, update_draft, delete or list request named: the
\* response tells the handler and the id, the handler's action the rest
SendStep(id, transport_ok) ==
    resp'.op = "send" /\ resp'.id = id /\ send(id, transport_ok)
UpdateStep(id, content) ==
    resp'.op = "update_draft" /\ resp'.id = id /\ update_draft(id, content)
DeleteStep(id) ==
    resp'.op = "delete_email" /\ resp'.id = id /\ delete_email(id)
ListStep ==
    resp'.op = "get_emails" /\ get_emails

\* C1: in every reachable state every stored draft has status "sent" exactly
\* when its sent_at is set.
C1_SentIffSentAt ==
    \A id \in DOMAIN drafts :
        (drafts[id].status = "sent") <=> (drafts[id].sent_at # None)

\* C2: a draft's status starts at "draft", is changed only by send, and once
\* "sent" or "failed" is never changed again by any request.
C2_StatusFinal ==
    [][ /\ \A id \in DOMAIN drafts' \ DOMAIN drafts : drafts'[id].status = "draft"
        /\ \A id \in DOMAIN drafts \cap DOMAIN drafts' :
              drafts'[id].status # drafts[id].status
                  => \E transport_ok \in BOOLEAN : SendStep(id, transport_ok)
        /\ \A id \in DOMAIN drafts \cap DOMAIN drafts' :
              drafts[id].status \in {"sent", "failed"}
                  => drafts'[id].status = drafts[id].status ]_vars

\* C3: a send on a stored draft of status "draft" ends, when the Dispatcher
\* reports success, with status "sent", sent_at set and the response
\* {status: "sent"}; when it reports failure (SMTP not configured included),
\* with status "failed", sent_at unset and a 500 response.  And no step makes
\* a draft "sent" but a send on it for which the Dispatcher reported success.
C3_SendOutcome ==
    [][ /\ \A id \in DOMAIN drafts, transport_ok \in BOOLEAN :
              (drafts[id].status = "draft" /\ SendStep(id, transport_ok))
                  => IF DispatcherSuccess(transport_ok)
                     THEN /\ drafts'[id].status = "sent"
                          /\ drafts'[id].sent_at # None
                          /\ resp'.code = 200
                          /\ resp'.status = "sent"
                     ELSE /\ drafts'[id].status = "failed"
                          /\ drafts'[id].sent_at = None
                          /\ resp'.code = 500
        /\ \A id \in DOMAIN drafts' :
              (drafts'[id].status = "sent"
                  /\ (id \notin DOMAIN drafts \/ drafts[id].status # "sent"))
                  => DispatcherSuccess(TRUE) /\ SendStep(id, TRUE) ]_vars

\* C3 witness: both outcomes have happened to drafts that were "draft"
C3_Witness ==
    /\ resp.op = "send"
    /\ \E i, j \in DOMAIN drafts :
          /\ drafts[i].status = "sent" /\ drafts[i].sent_at # None
          /\ drafts[j].status = "failed" /\ drafts[j].sent_at = None

\* C4: a send, update_draft or delete request naming an id absent from the
\* store is answered 404.
C4_MissingIs404 ==
    [][ \A id \in RequestIds :
          id \notin DOMAIN drafts =>
              /\ \A transport_ok \in BOOLEAN : SendStep(id, transport_ok) => resp'.code = 404
              /\ \A content \in UpdateContents : UpdateStep(id, content) => resp'.code = 404
              /\ DeleteStep(id) => resp'.code = 404 ]_vars

\* C7: the counters of a stats report add up to the number of stored drafts,
\* and every stored draft's status is one of draft, sent, failed.
C7_CountersPartition ==
    /\ \A id \in DOMAIN drafts : drafts[id].status \in {"draft", "sent", "failed"}
    /\ resp.op = "get_stats" =>
          /\ resp.code = 200
          /\ resp.stats[1].total_sent + resp.stats[1].total_drafts
                 + resp.stats[1].total_failed = Cardinality(DOMAIN drafts)

\* C7 witness: a report over a store holding a draft and a failed draft
C7_Witness ==
    /\ resp.op = "get_stats"
    /\ resp.code = 200
    /\ resp.stats[1].total_drafts = 1
    /\ resp.stats[1].total_failed = 1

\* every field of every row but the given fields of row id is unchanged
OnlyChanged(id, fields) ==
    /\ DOMAIN drafts' = DOMAIN drafts
    /\ \A j \in DOMAIN drafts, f \in DraftFields :
          (j # id \/ f \notin fields) => drafts'[j][f] = drafts[j][f]

\* C8: a successful update_draft changes only the content of the draft it
\* names, and send changes only status and sent_at of the draft it names.
C8_Frame ==
    [][ /\ \A id \in DOMAIN drafts, content \in UpdateContents :
              UpdateStep(id, content)
                  => resp'.code = 200 /\ OnlyChanged(id, {"content"})
        /\ \A id \in DOMAIN drafts, transport_ok \in BOOLEAN :
              SendStep(id, transport_ok) => OnlyChanged(id, {"status", "sent_at"}) ]_vars

\* C8 witness: an update has replaced the content of a sent draft while
\* another draft is stored
C8_Witness ==
    /\ resp.op = "update_draft"
    /\ resp.code = 200
    /\ Cardinality(DOMAIN drafts) = 2
    /\ drafts[resp.id].status = "sent"
    /\ drafts[resp.id].content = <<"Edited body">>

\* C9: a delete of an id not in the store leaves every row as it was, a
\* delete of a stored id removes that row and no other, and the list returns
\* exactly the rows stored.
C9_DeleteFrame ==
    [][ /\ \A id \in RequestIds :
              DeleteStep(id) =>
                  IF id \in DOMAIN drafts
                  THEN /\ DOMAIN drafts' = DOMAIN drafts \ {id}
                       /\ \A j \in DOMAIN drafts' : drafts'[j] = drafts[j]
                  ELSE drafts' = drafts
        /\ ListStep =>
              /\ Len(resp'.emails) = Cardinality(DOMAIN drafts)
              /\ {resp'.emails[k] : k \in DOMAIN resp'.emails} = Rows(drafts) ]_vars

\* C9 witness: a delete has named an id that a store of two drafts lacks
C9_Witness ==
    /\ resp.op = "delete_email"
    /\ resp.id \notin DOMAIN drafts
    /\ resp.code # 200
    /\ Cardinality(DOMAIN drafts) = 2

-----------------------------------------------------------------------------
(* SpecStats: the report as a function of the table and the evaluation     *)
(* instant.  The instant is drawn from StatsDays days that begin on        *)
(* 2024-01-01 (a February of 29 days lies among them); the rows are drawn  *)
(* with any status and a creation instant up to MaxAge ticks earlier.      *)

StatsStart == Instant(2024, 1, 1, 0)

\* a row as generate at now - age, and a send after it, leave it
StoredDraft(status, age) ==
    LET created == [t |-> now - age, aware |-> FALSE]
        draft == [NewDraft(NextId(drafts), <<"renew", "license">>, <<"Hi there,">>,
                           "a@example.com", "friendly", "general", "Hi there,")
                      EXCEPT !.created_at = Some(created)]
    IN  /\ resp = NoResponse
        /\ Count(DOMAIN drafts) < MaxStatsRows
        /\ drafts' = With(drafts,
               IF status = "sent"
               THEN [draft EXCEPT !.status = "sent",
                                  !.sent_at = Some([created EXCEPT !.aware = TRUE])]
               ELSE [draft EXCEPT !.status = status])
        /\ UNCHANGED <<now, smtp_configured, resp, served, sess>>

InitStats ==
    /\ drafts = EmptyStore
    /\ now \in StatsStart..(StatsStart + timedelta(StatsDays) - 1)
    /\ smtp_configured = TRUE
    /\ resp = NoResponse
    /\ served = 0
    /\ sess = <<>>

NextStats ==
    \/ \E status \in {"draft", "sent", "failed"}, age \in 0..MaxAge :
          StoredDraft(status, age)
    \/ get_stats /\ UNCHANGED served

SpecStats == InitStats /\ [][NextStats]_vars

\* the calendar month i months before the month of instant t
MonthsBack(t, i) == MonthIndex(t) - i

\* the abbreviated name of a calendar month
AbbrOf(month_index) == MonthAbbr[(month_index % 12) + 1]

\* the calendar month an entry stands for: the latest month, up to the one
\* of the evaluation, that bears the entry's name
EntryMonth(entry, at) ==
    CHOOSE mi \in (MonthIndex(at) - 11)..MonthIndex(at) : AbbrOf(mi) = entry.month

\* C5: monthly_stats has exactly 6 entries, one for the current calendar
\* month and one for each of the 5 calendar months before it, oldest first.
C5_SixConsecutiveMonths ==
    resp.op = "get_stats" =>
        /\ resp.code = 200
        /\ Len(resp.stats[1].monthly_stats) = 6
        /\ \A k \in 1..6 :
              resp.stats[1].monthly_stats[k].month = AbbrOf(MonthsBack(now, 6 - k))

\* C6: each entry's sent count is the number of stored drafts of status
\* "sent" created anywhere in the entry's calendar month, and its drafts
\* count the same for status "draft".
C6_CountsWholeMonth ==
    resp.op = "get_stats" =>
        /\ resp.code = 200
        /\ \A k \in 1..6 :
              LET entry == resp.stats[1].monthly_stats[k]
                  in_month(status) ==
                      { d \in Rows(drafts) :
                          /\ d.status = status
                          /\ MonthIndex(d.created_at[1].t) = EntryMonth(entry, now) }
              IN  /\ entry.sent = Cardinality(in_month("sent"))
                  /\ entry.drafts = Cardinality(in_month("draft"))

-----------------------------------------------------------------------------
(* SpecConc: send and update_draft requests on one stored draft, run by    *)
(* the server's worker threads at the same time.  Each request has its own *)
(* Session: session.get reads the row into it, the handler assigns to the  *)
(* loaded object, and session.commit writes the columns whose value the    *)
(* handler changed (UPDATE draft SET <changed columns> WHERE id = ?) in    *)
(* one transaction.  The SELECT holds no lock, so other requests run       *)
(* between a request's read, its SMTP exchange and its commit.             *)

Procs == 1..NumProcs

IdleSession ==
    [ pc |-> "idle", op |-> "none", id |-> 0, content |-> <<>>,
      loaded |-> None, success |-> FALSE, resp |-> NoResponse ]

\* the 404 of a handler, as its except clauses leave it
NotFound(op, draft_id) ==
    LET exc == HTTPException(404, "Draft not found")
    IN  ErrorResponse(op, draft_id,
                      IF op = "send" THEN send_except(exc) ELSE update_draft_except(exc))

\* the request arrives and the handler runs session.get(Draft, draft_id)
session_get(p, op, draft_id, content) ==
    /\ sess[p].pc = "idle"
    /\ sess' = [sess EXCEPT ![p] =
          IF draft_id \notin DOMAIN drafts
          THEN [@ EXCEPT !.pc = "done", !.op = op, !.id = draft_id,
                         !.resp = NotFound(op, draft_id)]
          ELSE [@ EXCEPT !.pc = "loaded", !.op = op, !.id = draft_id,
                         !.content = IF op = "update_draft" THEN content ELSE <<>>,
                         !.loaded = Some(drafts[draft_id])]]
    /\ UNCHANGED <<drafts, now, smtp_configured, resp, served>>

\* send: the call of send_email returns
dispatch(p, transport_ok) ==
    /\ sess[p].pc = "loaded"
    /\ sess[p].op = "send"
    /\ LET draft == sess[p].loaded[1]
       IN  sess' = [sess EXCEPT ![p].pc = "dispatched",
                                ![p].success = send_email(draft.recipient, send_subject(draft),
                                                          draft.content, transport_ok)]
    /\ UNCHANGED <<drafts, now, smtp_configured, resp, served>>

\* the object of the Session once the handler has assigned to it
Assigned(s) ==
    IF s.op = "update_draft" THEN UpdatedRow(s.loaded[1], s.content)
    ELSE IF s.success THEN SentRow(s.loaded[1])
    ELSE FailedRow(s.loaded[1])

\* the flush: the columns whose value differs from the one loaded are written
Flush(row, loaded, assigned) ==
    [f \in DOMAIN row |-> IF assigned[f] # loaded[f] THEN assigned[f] ELSE row[f]]

\* the handler assigns, session.commit() writes, the response is sent
commit(p) ==
    /\ \/ sess[p].op = "send" /\ sess[p].pc = "dispatched"
       \/ sess[p].op = "update_draft" /\ sess[p].pc = "loaded"
    /\ LET s == sess[p]
       IN  /\ drafts' = With(drafts, Flush(drafts[s.id], s.loaded[1], Assigned(s)))
           /\ sess' = [sess EXCEPT ![p].pc = "done",
                  ![p].resp =
                      IF s.op = "update_draft"
                      THEN Response("update_draft", s.id, 200, "", "Draft updated",
                                    None, <<>>, None)
                      ELSE IF s.success
                      THEN Response("send", s.id, 200, "sent", "Email sent successfully",
                                    None, <<>>, None)
                      ELSE ErrorResponse("send", s.id,
                               send_except(HTTPException(500, "Failed to send email")))]
    /\ UNCHANGED <<now, smtp_configured, resp, served>>

InitConc ==
    /\ now = StartInstant
    /\ smtp_configured \in BOOLEAN
    /\ resp = NoResponse
    /\ served = 0
    /\ sess = [p \in Procs |-> IdleSession]
    /\ \E request \in GenerateRequests, api \in ApiOutcomes :
          LET email_data == generate_email_with_subject(request.prompt, request.tone, api)
          IN  drafts = With(EmptyStore,
                            NewDraft(1, request.prompt, email_data.content,
                                     request.recipient, request.tone, request.type,
                                     email_data.subject))

NextConc ==
    \/ \E p \in Procs, op \in {"send", "update_draft"}, draft_id \in RequestIds,
          content \in UpdateContents :
          session_get(p, op, draft_id, content)
    \/ \E p \in Procs, transport_ok \in BOOLEAN : dispatch(p, transport_ok)
    \/ \E p \in Procs : commit(p)
    \/ Tick

SpecConc == InitConc /\ [][NextConc]_vars

\* C10: with requests on one draft interleaved, the stored row keeps
\* status = "sent" exactly when sent_at is set, and once all have completed
\* no committed write is lost: the content is that of the update, and status
\* and sent_at are those the send wrote.
C10_NoLostWrite ==
    /\ \A id \in DOMAIN drafts :
          (drafts[id].status = "sent") <=> (drafts[id].sent_at # None)
    /\ (\A p \in Procs : sess[p].pc = "done") =>
          \A p \in Procs :
              LET s == sess[p]
                  alone == \A q \in Procs \ {p} : sess[q].op # s.op \/ sess[q].id # s.id
              IN  (s.id \in DOMAIN drafts /\ alone) =>
                      /\ s.op = "update_draft" => drafts[s.id].content = s.content
                      /\ s.op = "send" =>
                            IF s.success
                            THEN drafts[s.id].status = "sent" /\ drafts[s.id].sent_at # None
                            ELSE drafts[s.id].status = "failed" /\ drafts[s.id].sent_at = None

=============================================================================
